---- MODULE Spec2Model ----
(***************************************************************************)
(* Model of the mixed Java/Rust parser orchestrator (src/parser-all.rs):   *)
(* the ISO-9001 "previous value" trackers, the Rust bridge helpers         *)
(* (tokenizer, AST builder, pointer bridge) and the steps of main().       *)
(* Strings are sequences of one-character strings, so that lengths,        *)
(* padding, trimming, prefixes and splitting are computed as the code      *)
(* computes them.  Integers parsed from strings are kept as decimal digit  *)
(* sequences with a sign, so that the 64-bit and 128-bit ranges of the     *)
(* source are the real ones.                                               *)
(***************************************************************************)
EXTENDS Integers, Sequences, FiniteSets, TLC

VARIABLES
    prevJava,        \* the static map __prevJava
    prevRust,        \* a HashMap handed to check_and_increase_rust by &mut
    last,            \* record of the last tracker call (observation only)
    calls,           \* number of tracker calls made (bounded by MaxCalls)
    overflowChecks,  \* build profile of the Rust half: TRUE = overflow panics
    pc,              \* position of main()
    run,             \* invocations of main() in this process so far
    args,            \* command line of main(): a sequence of strings
    fs,              \* the file system: the paths that name a file
    fileContent,     \* the decoded bytes of the file main read
    content,         \* main's local content
    sockOutcome,     \* what the socket handoff met
    finalJson,       \* main's local finalJson
    fb,              \* main's local fb
    socketResp,      \* main's local socketResp
    tokens,          \* main's local tokens (of the file)
    ast,             \* main's local ast
    outJson,         \* main's local outJson
    stdout,          \* lines written to System.out
    stderr,          \* lines written to System.err
    bridgeSrc,       \* the bytes handed to token_bridge_ptr
    bridgeOut,       \* what token_bridge_ptr returned (a sequence of results)
    adaSrc,          \* the source handed to parse_ada_to_ast
    adaOut           \* what parse_ada_to_ast returned (a sequence of results)

vars == <<prevJava, prevRust, last, calls, overflowChecks, pc, run, args, fs,
          fileContent, content, sockOutcome, finalJson, fb, socketResp, tokens, ast,
          outJson, stdout, stderr, bridgeSrc, bridgeOut, adaSrc, adaOut>>

trackerVars == <<prevJava, prevRust, last, calls>>
mainVars == <<pc, run, args, fs, fileContent, content, sockOutcome, finalJson, fb,
              socketResp, tokens, ast, outJson, stdout, stderr>>
bridgeVars == <<bridgeSrc, bridgeOut>>
adaVars == <<adaSrc, adaOut>>

(***************************************************************************)
(* Bounds of the model.                                                    *)
(***************************************************************************)
MaxCalls == 3
MaxLines == 2
MaxRuns == 2

\* Words in a source handed to parse_ada_to_ast.
MaxWords == 2

(***************************************************************************)
(* Strings and maps.                                                       *)
(***************************************************************************)
EmptyStr == <<>>

EmptyMap == [k \in {} |-> EmptyStr]

HasKey(m, k) == k \in DOMAIN m

Put(m, k, v) == [x \in (DOMAIN m) \cup {k} |-> IF x = k THEN v ELSE m[x]]

\* Characters removed by String.trim() (code units <= U+0020) and by
\* str::trim / str::trim_start (White_Space), among the characters used here.
\* F applied to the value of x, which is computed once.
Bind(x, F(_)) == CHOOSE r \in {F(v) : v \in {x}} : TRUE

IsWs(c) == c \in {" ", "\t", "\n", "\r"}

RECURSIVE TrimStart(_)
TrimStart(s) ==
    IF s = <<>> THEN s
    ELSE IF IsWs(Head(s)) THEN TrimStart(Tail(s)) ELSE s

RECURSIVE TrimEnd(_)
TrimEnd(s) ==
    IF s = <<>> THEN s
    ELSE IF IsWs(s[Len(s)]) THEN TrimEnd(SubSeq(s, 1, Len(s) - 1)) ELSE s

Trim(s) == TrimEnd(TrimStart(s))

StartsWith(s, p) == Len(s) >= Len(p) /\ SubSeq(s, 1, Len(p)) = p

(***************************************************************************)
(* Decimal integers as a sign and a magnitude (digits, most significant    *)
(* first, no leading zero except for zero itself).                         *)
(***************************************************************************)
DigitChars == <<"0","1","2","3","4","5","6","7","8","9">>

IsDigit(c) == \E d \in 1..10 : DigitChars[d] = c

DigitVal(c) == (CHOOSE d \in 1..10 : DigitChars[d] = c) - 1

RECURSIVE StripZeros(_)
StripZeros(ds) ==
    IF Len(ds) > 1 /\ Head(ds) = 0 THEN StripZeros(Tail(ds)) ELSE ds

NoInt == [ok |-> FALSE, neg |-> FALSE, mag |-> <<>>]

\* The syntax both Long.parseLong and str::parse::<i128> accept: an optional
\* sign, then at least one decimal digit, nothing else.
ParseDecimal(s) ==
    LET signed == s # <<>> /\ Head(s) \in {"+", "-"}
        body == IF signed THEN Tail(s) ELSE s
    IN  IF body = <<>> \/ \E i \in 1..Len(body) : ~IsDigit(body[i])
        THEN NoInt
        ELSE LET m == StripZeros([i \in 1..Len(body) |-> DigitVal(body[i])])
             IN  [ok |-> TRUE, neg |-> (Head(s) = "-" /\ m # <<0>>), mag |-> m]

MagLess(a, b) ==
    \/ Len(a) < Len(b)
    \/ /\ Len(a) = Len(b)
       /\ \E i \in 1..Len(a) :
            /\ a[i] < b[i]
            /\ \A j \in 1..(i - 1) : a[j] = b[j]

MagLeq(a, b) == a = b \/ MagLess(a, b)

RECURSIVE MagInc(_)
MagInc(a) ==
    IF a = <<>> THEN <<1>>
    ELSE LET n == Len(a)
         IN  IF a[n] < 9 THEN [a EXCEPT ![n] = a[n] + 1]
             ELSE Append(MagInc(SubSeq(a, 1, n - 1)), 0)

RECURSIVE MagDecRaw(_)
MagDecRaw(a) ==
    LET n == Len(a)
    IN  IF a[n] > 0 THEN [a EXCEPT ![n] = a[n] - 1]
        ELSE Append(MagDecRaw(SubSeq(a, 1, n - 1)), 9)

MagDec(a) == StripZeros(MagDecRaw(a))

\* n + 1 in the integers.
IntSucc(v) ==
    IF v.neg
    THEN LET m == MagDec(v.mag) IN [ok |-> TRUE, neg |-> (m # <<0>>), mag |-> m]
    ELSE [ok |-> TRUE, neg |-> FALSE, mag |-> MagInc(v.mag)]

\* Long.toString / i128::to_string
IntToString(v) ==
    LET ds == [i \in 1..Len(v.mag) |-> DigitChars[v.mag[i] + 1]]
    IN  IF v.neg THEN <<"-">> \o ds ELSE ds

InRange(v, maxMag) ==
    IF v.neg THEN MagLeq(v.mag, MagInc(maxMag)) ELSE MagLeq(v.mag, maxMag)

\* Long.MAX_VALUE = 2^63 - 1
LongMaxMag == <<9,2,2,3,3,7,2,0,3,6,8,5,4,7,7,5,8,0,7>>

\* i128::MAX = 2^127 - 1
I128MaxMag == <<1,7,0,1,4,1,1,8,3,4,6,0,4,6,9,2,3,1,7,3,1,6,8,7,3,0,3,7,1,5,8,8,4,1,0,5,7,2,7>>

MaxOf(maxMag) == [ok |-> TRUE, neg |-> FALSE, mag |-> maxMag]
MinOf(maxMag) == [ok |-> TRUE, neg |-> TRUE, mag |-> MagInc(maxMag)]

\* Long.parseLong(s): NumberFormatException outside the long range.
parseLong(s) ==
    LET p == ParseDecimal(s) IN IF p.ok /\ InRange(p, LongMaxMag) THEN p ELSE NoInt

\* n = n + 1 on a Java long: two's complement, wraps silently.
LongAddOne(v) == IF v = MaxOf(LongMaxMag) THEN MinOf(LongMaxMag) ELSE IntSucc(v)

\* v.trim().parse::<i128>(): Err outside the i128 range.
parse_i128(s) ==
    LET p == ParseDecimal(s) IN IF p.ok /\ InRange(p, I128MaxMag) THEN p ELSE NoInt

(***************************************************************************)
(* The Java-side tracker.                                                  *)
(***************************************************************************)
\* A null reference; no call site of the program passes one.
Null == <<"null reference">>

ensureEvenJava(s0) ==
    LET s == IF s0 = Null THEN EmptyStr ELSE s0
    IN  IF Len(s) % 2 = 1 THEN s \o <<" ">> ELSE s

\* A variant whose stagnant branch keeps the value as it is.
EvolveJava_Keep(value) == ensureEvenJava(value)

\* A variant that leaves out the second ensureEvenJava (line 35).
EvolveJava_NoRepad(value) ==
    LET p == parseLong(Trim(value))
    IN  IF p.ok THEN IntToString(LongAddOne(p)) ELSE value \o <<" ">>

\* The evolution of a stagnant value (the body of the if at lines 27-36).
EvolveJava(value) ==
    LET p == parseLong(Trim(value))
    IN  ensureEvenJava(IF p.ok THEN IntToString(LongAddOne(p)) ELSE value \o <<" ">>)

\* A variant that returns the value without storing it (line 37 left out).
checkAndIncreaseJava_NoPut(m, key, value0) ==
    LET value == ensureEvenJava(IF value0 = Null THEN EmptyStr ELSE value0)
        stagnant == HasKey(m, key) /\ m[key] = value
        v == IF stagnant THEN EvolveJava(value) ELSE value
    IN  [map |-> m, ret |-> v]

\* checkAndIncreaseJava on the map m: the map after the call and the value returned.
checkAndIncreaseJava(m, key, value0) ==
    LET value == ensureEvenJava(IF value0 = Null THEN EmptyStr ELSE value0)
        stagnant == HasKey(m, key) /\ m[key] = value
        v == IF stagnant THEN EvolveJava(value) ELSE value
    IN  [map |-> Put(m, key, v), ret |-> v]

(***************************************************************************)
(* The Rust-side tracker.                                                  *)
(***************************************************************************)
ensure_even_rust(s) == IF Len(s) % 2 = 1 THEN Append(s, " ") ELSE s

\* A variant whose stagnant non-integer branch is not re-padded (line 226
\* left out).
check_and_increase_rust_NoRepad(prev, key, value, oc) ==
    LET v0 == ensure_even_rust(value)
        stagnant == HasKey(prev, key) /\ prev[key] = v0
        p == parse_i128(Trim(v0))
        overflow == stagnant /\ p.ok /\ p = MaxOf(I128MaxMag)
        v == IF ~stagnant THEN v0
             ELSE IF p.ok
                  THEN ensure_even_rust(
                         IntToString(IF overflow THEN MinOf(I128MaxMag) ELSE IntSucc(p)))
                  ELSE Append(v0, " ")
    IN  IF overflow /\ oc
        THEN [map |-> prev, ret |-> EmptyStr, panic |-> TRUE]
        ELSE [map |-> Put(prev, key, v), ret |-> v, panic |-> FALSE]

\* check_and_increase_rust on the map prev, in a build with (oc) or without
\* overflow checks: the map after the call, the value returned, and whether
\* the call panicked instead of returning (n + 1 on i128::MAX).
check_and_increase_rust(prev, key, value, oc) ==
    LET v0 == ensure_even_rust(value)
        stagnant == HasKey(prev, key) /\ prev[key] = v0
        p == parse_i128(Trim(v0))
        overflow == stagnant /\ p.ok /\ p = MaxOf(I128MaxMag)
        v == IF ~stagnant THEN v0
             ELSE ensure_even_rust(
                    IF p.ok
                    THEN IntToString(IF overflow THEN MinOf(I128MaxMag) ELSE IntSucc(p))
                    ELSE Append(v0, " "))
    IN  IF overflow /\ oc
        THEN [map |-> prev, ret |-> EmptyStr, panic |-> TRUE]
        ELSE [map |-> Put(prev, key, v), ret |-> v, panic |-> FALSE]

(***************************************************************************)
(* The Rust bridge helpers (mod RustInterop).                              *)
(***************************************************************************)
ProgramEmpty ==
    <<"{","\"","k","i","n","d","\"",":","\"","P","r","o","g","r","a","m","\"",",",
      "\"","c","h","i","l","d","r","e","n","\"",":","[","]","}">>

ProgramOpen ==
    <<"{","\"","k","i","n","d","\"",":","\"","P","r","o","g","r","a","m","\"",",",
      "\"","c","h","i","l","d","r","e","n","\"",":","[">>

ProgramClose == <<"]","}">>

NodeOpen == <<"{","\"","k","i","n","d","\"",":","\"">>

NodeMid == <<"\"",",","\"","n","a","m","e","\"",":","\"">>

NodeClose == <<"\"","}">>

EmptyList == <<"[","]">>

TagDEF == <<"D","E","F">>
TagCLASS == <<"C","L","A","S","S">>
TagIMPORT == <<"I","M","P","O","R","T">>
TagSTMT == <<"S","T","M","T">>

\* [T]::join(sep) on a sequence of strings
RECURSIVE Join(_, _)
Join(parts, sep) ==
    IF parts = <<>> THEN EmptyStr
    ELSE IF Len(parts) = 1 THEN parts[1]
    ELSE parts[1] \o sep \o Join(Tail(parts), sep)

\* str::split(c): the pieces between the occurrences of c, empty ones included
Split(s, c) ==
    LET seps == {i \in 1..Len(s) : s[i] = c}
        n == Cardinality(seps)
        \* the k-th occurrence of c, with the two ends of s as occurrences 0 and n + 1
        pos(k) == IF k = 0 THEN 0
                  ELSE IF k = n + 1 THEN Len(s) + 1
                  ELSE CHOOSE i \in seps : Cardinality({j \in seps : j < i}) = k - 1
    IN  [k \in 1..(n + 1) |-> SubSeq(s, pos(k - 1) + 1, pos(k) - 1)]

\* str::lines(): lines end at "\n" or "\r\n"; a last line without a line
\* ending is a line; no empty line follows a final line ending.
lines(s) ==
    LET raw == Split(s, "\n")
        n == Len(raw)
        StripCr(l) == IF l # <<>> /\ l[Len(l)] = "\r" THEN SubSeq(l, 1, Len(l) - 1) ELSE l
        terminated == [i \in 1..(n - 1) |-> StripCr(raw[i])]
    IN  IF raw[n] = <<>> THEN terminated ELSE Append(terminated, raw[n])

\* A variant of the classification that does not strip the leading whitespace.
ClassifyLine_NoTrim(line) ==
    LET tr == line
    IN  IF StartsWith(tr, <<"d","e","f"," ">>) THEN <<TagDEF>>
        ELSE IF StartsWith(tr, <<"c","l","a","s","s"," ">>) THEN <<TagCLASS>>
        ELSE IF StartsWith(tr, <<"i","m","p","o","r","t"," ">>)
                \/ StartsWith(tr, <<"f","r","o","m"," ">>) THEN <<TagIMPORT>>
        ELSE IF StartsWith(tr, <<"#">>) \/ tr = <<>> THEN <<>>
        ELSE <<TagSTMT>>

\* The body of the loop of tokenize_even_checked: what one line pushes.
ClassifyLine(line) ==
    LET tr == TrimStart(line)
    IN  IF StartsWith(tr, <<"d","e","f"," ">>) THEN <<TagDEF>>
        ELSE IF StartsWith(tr, <<"c","l","a","s","s"," ">>) THEN <<TagCLASS>>
        ELSE IF StartsWith(tr, <<"i","m","p","o","r","t"," ">>)
                \/ StartsWith(tr, <<"f","r","o","m"," ">>) THEN <<TagIMPORT>>
        ELSE IF StartsWith(tr, <<"#">>) \/ tr = <<>> THEN <<>>
        ELSE <<TagSTMT>>

\* The loop of tokenize_even_checked over the lines ls, from the vector acc.
RECURSIVE TokenizeLoop(_, _)
TokenizeLoop(ls, acc) ==
    IF ls = <<>> THEN acc
    ELSE TokenizeLoop(Tail(ls), acc \o ClassifyLine(Head(ls)))

rust_inline_parse(source, oc) ==
    LET res == ensure_even_rust(ProgramEmpty)
    IN  check_and_increase_rust(EmptyMap, "fallback_res", res, oc).ret

tokenize_even_checked(source, oc) ==
    IF Trim(source) = <<>>
    THEN check_and_increase_rust(EmptyMap, "tokens_empty", ensure_even_rust(EmptyList), oc).ret
    ELSE LET Tracked(toks) ==
                 LET joined == Join(toks, <<",">>)
                     joined_even == ensure_even_rust(joined)
                 IN  check_and_increase_rust(EmptyMap, "tokens_joined", joined_even, oc).ret
             Loop(ls) == Bind(TokenizeLoop(ls, <<>>), Tracked)
         IN  Bind(lines(source), Loop)

\* format!("{}", i) of a usize
RECURSIVE NatToString(_)
NatToString(i) ==
    IF i < 10 THEN <<DigitChars[i + 1]>>
    ELSE Append(NatToString(i \div 10), DigitChars[(i % 10) + 1])

SelectNonEmpty(parts) == SelectSeq(parts, LAMBDA x : x # <<>>)

\* The node pushed for the token t at index i (lines 278-282).
AstNode(t, i) ==
    LET kind_even == ensure_even_rust(t)
        name_even == ensure_even_rust(<<"n">> \o NatToString(i))
    IN  NodeOpen \o kind_even \o NodeMid \o name_even \o NodeClose

build_ast_from_tokens(toksStr, oc) ==
    IF Trim(toksStr) = <<>>
    THEN check_and_increase_rust(EmptyMap, "ast_empty", ensure_even_rust(ProgramEmpty), oc).ret
    ELSE LET Tracked(astStr) ==
                 check_and_increase_rust(EmptyMap, "ast_built", ensure_even_rust(astStr), oc).ret
             Built(toks) ==
                 LET children == [i \in 1..Len(toks) |-> AstNode(toks[i], i - 1)]
                     body == Join(children, <<",">>)
                 IN  Bind(ProgramOpen \o body \o ProgramClose, Tracked)
         IN  Bind(SelectNonEmpty(Split(toksStr, ",")), Built)

\* token_bridge_ptr on len bytes at source_ptr: bytes that are not UTF-8 are
\* read as the empty string.
token_bridge_ptr(bytes, validUtf8, oc) ==
    LET s == IF validUtf8 THEN bytes ELSE EmptyStr
        t == tokenize_even_checked(s, oc)
    IN  IF Len(t) % 2 = 1 THEN Append(t, " ") ELSE t

(***************************************************************************)
(* The trackers driven by arbitrary calls: any slot key, any candidate.    *)
(***************************************************************************)
Keys == {"k", "k2"}

LongMaxStr == IntToString(MaxOf(LongMaxMag))

I128MaxStr == IntToString(MaxOf(I128MaxMag))

\* Candidate strings: odd and even lengths, the empty string, integers with
\* and without padding, a sign, a non-integer, the largest long and the
\* largest i128.
BaseCands ==
    { EmptyStr, <<"4">>, <<"4"," ">>, <<"a","b">>, <<"-","1">>,
      LongMaxStr, I128MaxStr }

NoCall == [side |-> "none", key |-> "", cand |-> EmptyStr, had |-> FALSE,
           prior |-> EmptyStr, ret |-> EmptyStr, panic |-> FALSE]

\* A caller may also hand back the value the previous call returned.
Cands == BaseCands \cup (IF last.side = "none" THEN {} ELSE {last.ret})

MainIdle ==
    /\ pc = "idle"
    /\ run = 0
    /\ args = <<>>
    /\ fs = {}
    /\ fileContent = EmptyStr
    /\ content = EmptyStr
    /\ sockOutcome = "none"
    /\ finalJson = EmptyStr
    /\ fb = EmptyStr
    /\ socketResp = EmptyStr
    /\ tokens = EmptyStr
    /\ ast = EmptyStr
    /\ outJson = EmptyStr
    /\ stdout = <<>>
    /\ stderr = <<>>

BridgeIdle ==
    /\ bridgeSrc = EmptyStr
    /\ bridgeOut = <<>>

AdaIdle ==
    /\ adaSrc = EmptyStr
    /\ adaOut = <<>>

TrackerIdle ==
    /\ prevJava = EmptyMap
    /\ prevRust = EmptyMap
    /\ last = NoCall
    /\ calls = 0

TrackerInit ==
    /\ TrackerIdle
    /\ overflowChecks \in BOOLEAN
    /\ MainIdle
    /\ BridgeIdle
    /\ AdaIdle

UpdateJava(key, cand) ==
    /\ calls < MaxCalls
    /\ ~last.panic
    /\ LET r == checkAndIncreaseJava(prevJava, key, cand)
       IN  /\ prevJava' = r.map
           /\ last' = [side |-> "java", key |-> key, cand |-> cand,
                       had |-> HasKey(prevJava, key),
                       prior |-> IF HasKey(prevJava, key) THEN prevJava[key] ELSE EmptyStr,
                       ret |-> r.ret, panic |-> FALSE]
    /\ calls' = calls + 1
    /\ UNCHANGED <<prevRust, overflowChecks, mainVars, bridgeVars, adaVars>>

UpdateRust(key, cand) ==
    /\ calls < MaxCalls
    /\ ~last.panic
    /\ LET r == check_and_increase_rust(prevRust, key, cand, overflowChecks)
       IN  /\ prevRust' = r.map
           /\ last' = [side |-> "rust", key |-> key, cand |-> cand,
                       had |-> HasKey(prevRust, key),
                       prior |-> IF HasKey(prevRust, key) THEN prevRust[key] ELSE EmptyStr,
                       ret |-> r.ret, panic |-> r.panic]
    /\ calls' = calls + 1
    /\ UNCHANGED <<prevJava, overflowChecks, mainVars, bridgeVars, adaVars>>

TrackerNext ==
    \/ \E key \in Keys, cand \in Cands : UpdateJava(key, cand)
    \/ \E key \in Keys, cand \in Cands : UpdateRust(key, cand)

TrackerSpec == TrackerInit /\ [][TrackerNext]_vars

(***************************************************************************)
(* The inputs of the bridge and of main(): file contents made of at most   *)
(* MaxLines lines, with or without a final line ending.                    *)
(***************************************************************************)
LineSet ==
    { <<"d","e","f"," ","f","(",")",":">>,                      \* def f():
      <<" "," "," "," ","r","e","t","u","r","n"," ","1">>,      \*     return 1
      <<"d","e","f">>,                                          \* def
      <<" ","c","l","a","s","s"," ","C",":">>,                  \*  class C:
      <<"i","m","p","o","r","t"," ","o","s">>,                  \* import os
      <<"f","r","o","m"," ","x">>,                              \* from x
      <<"#"," ","c">>,                                          \* # c
      <<>>,                                                     \* an empty line
      <<" ","\r">> }                                            \* a blank line of a CRLF file

LineSeqs == UNION { [1..n -> LineSet] : n \in 0..MaxLines }

Sources ==
    { Join(ls, <<"\n">>) \o e : ls \in LineSeqs, e \in {<<>>, <<"\n">>} }

PathEven == <<"a",".","p","y">>

PathOdd == <<"i","n",".","p","y">>

\* What the peer may send before it closes the stream.
SockTexts ==
    { EmptyStr, <<" ">>, <<"x">>, <<"{","}">> }

AstPlaceholderJson ==
    <<"{","\"","k","i","n","d","\"",":","\"","P","r","o","g","r","a","m","\"",",",
      "\"","c","h","i","l","d","r","e","n","\"",":","[","{","\"","k","i","n","d",
      "\"",":","\"","S","t","a","t","e","m","e","n","t","\"",",","\"","n","a","m",
      "e","\"",":","\"","p","l","a","c","e","h","o","l","d","e","r","\"","}","]","}">>

UsageMsg ==
    <<"U","s","a","g","e",":"," ","M","i","x","e","d","C","o","m","b","i","n","e",
      "d","P","a","r","s","e","r"," ","<","p","a","t","h","-","t","o","-","p","y",
      "t","h","o","n","-","f","i","l","e",">">>

FileNotFound == <<"F","i","l","e"," ","n","o","t"," ","f","o","u","n","d",":"," ">>

Probe == <<"\n","<","<","E","N","D",">",">","\n">>

\* The stack trace of an exception that leaves main.
UncaughtTrace == <<"j","a","v","a",".","i","o",".","I","O","E","x","c","e","p","t","i","o","n">>

(***************************************************************************)
(* The pointer bridge called on its own.                                   *)
(***************************************************************************)
BridgeInit ==
    /\ TrackerIdle
    /\ overflowChecks \in BOOLEAN
    /\ MainIdle
    /\ bridgeSrc \in Sources
    /\ bridgeOut = <<>>
    /\ AdaIdle

TokenBridge ==
    /\ bridgeOut = <<>>
    /\ \E validUtf8 \in BOOLEAN :
         bridgeOut' = <<[valid |-> validUtf8,
                         out |-> token_bridge_ptr(bridgeSrc, validUtf8, overflowChecks)]>>
    /\ UNCHANGED <<bridgeSrc, overflowChecks, trackerVars, mainVars, adaVars>>

BridgeNext == TokenBridge

BridgeSpec == BridgeInit /\ [][BridgeNext]_vars

(***************************************************************************)
(* The library parser (src/lib.rs).                                        *)
(***************************************************************************)
Procedure == <<"p","r","o","c","e","d","u","r","e">>
Unnamed == <<"u","n","n","a","m","e","d">>
TextValue == <<"<","t","e","x","t",">">>

AlnumChars ==
    { "a","b","c","d","e","f","g","h","i","j","k","l","m","n","o","p","q","r","s",
      "t","u","v","w","x","y","z","A","B","C","D","E","F","G","H","I","J","K","L",
      "M","N","O","P","Q","R","S","T","U","V","W","X","Y","Z",
      "0","1","2","3","4","5","6","7","8","9" }

\* char::is_alphanumeric
is_alphanumeric(c) == c \in AlnumChars

\* str::contains(pat)
Contains(s, pat) ==
    \E i \in 1..(Len(s) - Len(pat) + 1) : SubSeq(s, i, i + Len(pat) - 1) = pat

\* str::split_whitespace(): the maximal runs of characters that are not
\* whitespace, in order
split_whitespace(s) ==
    LET starts == {i \in 1..Len(s) : ~IsWs(s[i]) /\ (i = 1 \/ IsWs(s[i - 1]))}
        start(k) == CHOOSE i \in starts : Cardinality({j \in starts : j < i}) = k - 1
        end(i) == CHOOSE j \in i..Len(s) :
                      /\ \A h \in i..j : ~IsWs(s[h])
                      /\ (j = Len(s) \/ IsWs(s[j + 1]))
    IN  [k \in 1..Cardinality(starts) |-> SubSeq(s, start(k), end(start(k)))]

\* skip_while(|s| *s != "procedure").skip(1).next(): the word after the first
\* word that is "procedure", as a sequence of zero or one word
NextAfterProcedure(words) ==
    LET hits == {i \in 1..Len(words) : words[i] = Procedure}
        first == CHOOSE i \in hits : \A j \in hits : i <= j
    IN  IF hits = {} \/ first = Len(words) THEN <<>> ELSE <<words[first + 1]>>

\* Option::unwrap_or
unwrap_or(opt, default) == IF opt = <<>> THEN default ELSE opt[1]

\* str::trim_matches(|c| !c.is_alphanumeric())
trim_matches_non_alnum(w) ==
    LET keep == {i \in 1..Len(w) : is_alphanumeric(w[i])}
        lo == CHOOSE i \in keep : \A j \in keep : i <= j
        hi == CHOOSE i \in keep : \A j \in keep : j <= i
    IN  IF keep = {} THEN EmptyStr ELSE SubSeq(w, lo, hi)

\* lines 23-62
parse_ada_to_ast(source) ==
    LET proc_name ==
            trim_matches_non_alnum(
                unwrap_or(NextAfterProcedure(split_whitespace(source)), Unnamed))
        children ==
            IF Contains(source, Procedure)
            THEN <<[kind |-> "ProcedureDecl", name |-> proc_name,
                    children |-> <<[kind |-> "Identifier", name |-> proc_name,
                                    children |-> <<>>]>>]>>
            ELSE IF Trim(source) = <<>>
            THEN <<[kind |-> "Unknown", children |-> <<>>]>>
            ELSE <<[kind |-> "Literal", value |-> TextValue, children |-> <<>>]>>
    IN  [kind |-> "Program", children |-> children]

\* The words of the sources handed to the parser.
AdaWords ==
    { Procedure,
      <<"p","r","o","c","e","d","u","r","e","s">>,     \* procedures
      <<"-","-","p","r","o","c","e","d","u","r","e">>,    \* --procedure
      <<"H","e","l","l","o">>,                          \* Hello
      <<"H","e","l","l","o",";">>,                      \* Hello;
      <<"i","s">>,                                      \* is
      <<"x",":","=","1">> }                              \* x:=1

AdaWordSeqs == UNION { [1..n -> AdaWords] : n \in 0..MaxWords }

AdaSources ==
    { Join(ws, <<" ">>) \o e : ws \in AdaWordSeqs, e \in {<<>>, <<"\n">>} }

AdaInit ==
    /\ TrackerIdle
    /\ overflowChecks \in BOOLEAN
    /\ MainIdle
    /\ BridgeIdle
    /\ adaSrc \in AdaSources
    /\ adaOut = <<>>

ParseAda ==
    /\ adaOut = <<>>
    /\ adaOut' = <<parse_ada_to_ast(adaSrc)>>
    /\ UNCHANGED <<adaSrc, overflowChecks, trackerVars, mainVars, bridgeVars>>

AdaNext == ParseAda

AdaSpec == AdaInit /\ [][AdaNext]_vars

(***************************************************************************)
(* main().                                                                 *)
(***************************************************************************)
Init ==
    /\ TrackerIdle
    /\ BridgeIdle
    /\ AdaIdle
    /\ overflowChecks \in BOOLEAN
    /\ pc = "start"
    /\ run = 1
    /\ args \in {<<>>, <<PathEven>>, <<PathOdd>>}
    /\ fs \in {{}, {PathEven, PathOdd}}
    /\ fileContent = EmptyStr
    /\ content = EmptyStr
    /\ sockOutcome = "none"
    /\ finalJson = EmptyStr
    /\ fb = EmptyStr
    /\ socketResp = EmptyStr
    /\ tokens = EmptyStr
    /\ ast = EmptyStr
    /\ outJson = EmptyStr
    /\ stdout = <<>>
    /\ stderr = <<>>

idleVars == <<prevRust, last, calls, overflowChecks, bridgeVars, adaVars, run, args, fs>>

\* A variant that keeps every value of the run under one slot key.
Track_OneSlot(m, key, v) == checkAndIncreaseJava(m, "slot", ensureEvenJava(v))

\* A tracked assignment of main: x = ensureEvenJava(x); x = checkAndIncreaseJava(key, x)
Track(m, key, v) == checkAndIncreaseJava(m, key, ensureEvenJava(v))

\* lines 43-45
Seed ==
    /\ pc = "start"
    /\ LET r == Track(prevJava, "finalJson_init", ProgramEmpty)
       IN  /\ finalJson' = r.ret
           /\ prevJava' = r.map
    /\ pc' = "fallback"
    /\ UNCHANGED <<idleVars, fileContent, content, sockOutcome, fb, socketResp,
                   tokens, ast, outJson, stdout, stderr>>

\* lines 48-58
Fallback ==
    /\ pc = "fallback"
    /\ LET r1 == Track(prevJava, "fb_after_rust_call",
                       rust_inline_parse(EmptyStr, overflowChecks))
           r2 == checkAndIncreaseJava(r1.map, "finalJson_from_fb", r1.ret)
       IN  /\ fb' = r1.ret
           /\ IF Len(Trim(r1.ret)) > 0
              THEN finalJson' = r2.ret /\ prevJava' = r2.map
              ELSE finalJson' = finalJson /\ prevJava' = r1.map
    /\ pc' = "socket"
    /\ UNCHANGED <<idleVars, fileContent, content, sockOutcome, socketResp,
                   tokens, ast, outJson, stdout, stderr>>

\* lines 108-111, from the map m and the socketResp resp
SocketArbitrate(m, resp) ==
    LET r == checkAndIncreaseJava(m, "finalJson_from_socket", resp)
    IN  /\ socketResp' = resp
        /\ IF Len(Trim(resp)) > 0
           THEN finalJson' = r.ret /\ prevJava' = r.map
           ELSE finalJson' = finalJson /\ prevJava' = m

\* A variant in which the exception leaves main instead of being caught.
SocketCatch_Rethrow(m) ==
    /\ socketResp' = socketResp
    /\ finalJson' = finalJson
    /\ prevJava' = m
    /\ pc' = "crashed"

\* lines 105-111: the catch block, then the arbitration
SocketCatch(m) ==
    /\ LET r == checkAndIncreaseJava(m, "socketResp_err", EmptyStr)
       IN  SocketArbitrate(r.map, r.ret)
    /\ pc' = "placeholder"

\* lines 84-93: connect, track the probe, write it
SocketOpen ==
    /\ pc = "socket"
    /\ \/ /\ sockOutcome' = "connectFailed"
          /\ SocketCatch(prevJava)
       \/ /\ sockOutcome' = "writeFailed"
          /\ SocketCatch(Track(prevJava, "probe_socket", Probe).map)
       \/ /\ sockOutcome' = "connected"
          /\ prevJava' = Track(prevJava, "probe_socket", Probe).map
          /\ pc' = "sockRead"
          /\ UNCHANGED <<finalJson, socketResp>>
    /\ UNCHANGED <<idleVars, fileContent, content, fb, tokens, ast, outJson,
                   stdout, stderr>>

\* lines 95-111: read until the peer closes, decode, track, arbitrate
SocketRead ==
    /\ pc = "sockRead"
    /\ \/ \E text \in SockTexts :
            /\ sockOutcome' = "closed"
            /\ LET r == Track(prevJava, "socketResp", text)
               IN  SocketArbitrate(r.map, r.ret)
            /\ pc' = "placeholder"
       \/ /\ sockOutcome' = "readFailed"
          /\ SocketCatch(prevJava)
    /\ UNCHANGED <<idleVars, fileContent, content, fb, tokens, ast, outJson,
                   stdout, stderr>>

\* lines 138-146
AstPlaceholder ==
    /\ pc = "placeholder"
    /\ LET r1 == Track(prevJava, "astJson_init", AstPlaceholderJson)
           r2 == checkAndIncreaseJava(r1.map, "finalJson_from_ast_placeholder", r1.ret)
       IN  IF r1.ret # finalJson
           THEN finalJson' = r2.ret /\ prevJava' = r2.map
           ELSE finalJson' = finalJson /\ prevJava' = r1.map
    /\ pc' = "tokensInit"
    /\ UNCHANGED <<idleVars, fileContent, content, sockOutcome, fb, socketResp,
                   tokens, ast, outJson, stdout, stderr>>

\* lines 152-156: the local tokens of this block ends with the block
TokensInit ==
    /\ pc = "tokensInit"
    /\ prevJava' = Track(prevJava, "tokens_init", EmptyList).map
    /\ pc' = "args"
    /\ UNCHANGED <<idleVars, fileContent, content, sockOutcome, finalJson, fb,
                   socketResp, tokens, ast, outJson, stdout, stderr>>

\* lines 163-178
ArgsAndFile ==
    /\ pc = "args"
    /\ IF Len(args) < 1
       THEN LET r == Track(prevJava, "usage_msg", UsageMsg)
            IN  /\ prevJava' = r.map
                /\ stderr' = Append(stderr, r.ret)
                /\ pc' = "halted"
       ELSE LET r1 == checkAndIncreaseJava(prevJava, "rawPath", args[1])
                r2 == Track(r1.map, "file_missing", FileNotFound \o r1.ret)
            IN  IF r1.ret \notin fs
                THEN /\ prevJava' = r2.map
                     /\ stderr' = Append(stderr, r2.ret)
                     /\ pc' = "halted"
                ELSE /\ prevJava' = r1.map
                     /\ stderr' = stderr
                     /\ pc' = "read"
    /\ UNCHANGED <<idleVars, fileContent, content, sockOutcome, finalJson, fb,
                   socketResp, tokens, ast, outJson, stdout>>

\* What the file holds when main reads it: any content, and in a later
\* invocation what an earlier one of this process read (the file is not
\* rewritten between them).
OnDisk == IF run > 1 /\ HasKey(prevJava, "content_loaded") THEN {fileContent} ELSE Sources

\* lines 179-182: readAllBytes returns the bytes or throws out of main
ReadFile ==
    /\ pc = "read"
    /\ \/ \E src \in OnDisk :
            /\ fileContent' = src
            /\ LET r == Track(prevJava, "content_loaded", src)
               IN  content' = r.ret /\ prevJava' = r.map
            /\ pc' = "tokenize"
            /\ stderr' = stderr
       \/ /\ pc' = "crashed"
          /\ stderr' = Append(stderr, UncaughtTrace)
          /\ UNCHANGED <<fileContent, content, prevJava>>
    /\ UNCHANGED <<idleVars, sockOutcome, finalJson, fb, socketResp, tokens,
                   ast, outJson, stdout>>

\* A variant that also prints the tokens, a partial result.
Tokenize_PrintsTokens ==
    /\ pc = "tokenize"
    /\ \E t \in {tokenize_even_checked(content, overflowChecks)} :
          \E r \in {Track(prevJava, "tokens_after_read", t)} :
              tokens' = r.ret /\ prevJava' = r.map /\ stdout' = Append(stdout, r.ret)
    /\ pc' = "build"
    /\ UNCHANGED <<idleVars, fileContent, content, sockOutcome, finalJson, fb,
                   socketResp, ast, outJson, stderr>>

\* lines 185-187
Tokenize ==
    /\ pc = "tokenize"
    /\ \E t \in {tokenize_even_checked(content, overflowChecks)} :
          \E r \in {Track(prevJava, "tokens_after_read", t)} :
              tokens' = r.ret /\ prevJava' = r.map
    /\ pc' = "build"
    /\ UNCHANGED <<idleVars, fileContent, content, sockOutcome, finalJson, fb,
                   socketResp, ast, outJson, stdout, stderr>>

\* lines 189-191
Build ==
    /\ pc = "build"
    /\ \E a \in {build_ast_from_tokens(tokens, overflowChecks)} :
          \E r \in {Track(prevJava, "ast_after_build", a)} :
              ast' = r.ret /\ prevJava' = r.map
    /\ pc' = "emit"
    /\ UNCHANGED <<idleVars, fileContent, content, sockOutcome, finalJson, fb,
                   socketResp, tokens, outJson, stdout, stderr>>

\* A variant that prints the arbitrated finalJson instead of outJson.
Printed_FinalJson(final, out) == final

\* What line 197 prints, of main's finalJson and outJson.
Printed(final, out) == out

\* A variant in which the write to standard output never completes.
Emit_Blocked ==
    /\ pc = "emit"
    /\ UNCHANGED vars

\* lines 193-197
Emit ==
    /\ pc = "emit"
    /\ LET r == Track(prevJava, "outJson_final", ast)
       IN  /\ outJson' = r.ret
           /\ prevJava' = r.map
           /\ stdout' = Append(stdout, Printed(finalJson, r.ret))
    /\ pc' = "done"
    /\ UNCHANGED <<idleVars, fileContent, content, sockOutcome, finalJson, fb,
                   socketResp, tokens, ast, stderr>>

Next ==
    \/ Seed
    \/ Fallback
    \/ SocketOpen
    \/ SocketRead
    \/ AstPlaceholder
    \/ TokensInit
    \/ ArgsAndFile
    \/ ReadFile
    \/ Tokenize
    \/ Build
    \/ Emit

Spec == Init /\ [][Next]_vars

(***************************************************************************)
(* main() invoked again in the same process: its locals are new, the       *)
(* static map and the streams of the process are the ones it left.         *)
(***************************************************************************)
\* The steps main takes on its own: synchronous code on one thread, each
\* statement runs to completion once control reaches it.  The end of the
\* socket read is the peer's step, not main's.
LocalStep ==
    \/ Seed
    \/ Fallback
    \/ SocketOpen
    \/ AstPlaceholder
    \/ TokensInit
    \/ ArgsAndFile
    \/ ReadFile
    \/ Tokenize
    \/ Build
    \/ Emit

\* One invocation of main that keeps running; nothing is assumed of the peer.
LiveSpec == Init /\ [][Next]_vars /\ WF_vars(LocalStep)

Returned2Caller == pc \in {"done", "halted", "crashed"}

\* line 41 entered again; line 13 is not run again
Reinvoke ==
    /\ Returned2Caller
    /\ run < MaxRuns
    /\ run' = run + 1
    /\ pc' = "start"
    /\ sockOutcome' = "none"
    /\ finalJson' = EmptyStr
    /\ fb' = EmptyStr
    /\ socketResp' = EmptyStr
    /\ content' = EmptyStr
    /\ tokens' = EmptyStr
    /\ ast' = EmptyStr
    /\ outJson' = EmptyStr
    /\ UNCHANGED <<prevJava, prevRust, last, calls, overflowChecks, bridgeVars, adaVars,
                   args, fs, fileContent, stdout, stderr>>

RerunNext ==
    \/ Next
    \/ Reinvoke

RerunSpec == Init /\ [][RerunNext]_vars

(***************************************************************************)
(* Properties of the trackers (TrackerSpec).                               *)
(***************************************************************************)
\* The candidate padded to even length, as section 4.1 states it.
PadEven(s) == IF Len(s) % 2 = 0 THEN s ELSE s \o <<" ">>

Returned == last.side # "none" /\ ~last.panic

\* The map the last call wrote.
LastMap == IF last.side = "java" THEN prevJava ELSE prevRust

\* The last call found its normalized candidate already stored under its key.
Stagnant == Returned /\ last.had /\ last.prior = PadEven(last.cand)

\* The normalized candidate of the last call read as an integer of any size.
LastInt == ParseDecimal(Trim(PadEven(last.cand)))

\* C1: after any sequence of update calls every value stored in either map
\* and every value returned by an update has even length.
C1_EvenLength ==
    /\ \A k \in DOMAIN prevJava : Len(prevJava[k]) % 2 = 0
    /\ \A k \in DOMAIN prevRust : Len(prevRust[k]) % 2 = 0
    /\ Returned => Len(last.ret) % 2 = 0

\* A stagnant "4 " was incremented by the Java tracker and came back padded.
C1_Witness ==
    /\ last.side = "java"
    /\ Stagnant
    /\ last.prior = <<"4", " ">>
    /\ last.ret = <<"5", " ">>

\* C2: an update that finds its normalized candidate already stored returns
\* and stores a different value; so a slot never holds the same value after
\* two consecutive writes to it.
C2_StagnationBroken ==
    /\ Stagnant => last.ret # last.prior
    /\ (Returned /\ last.had) =>
          /\ HasKey(LastMap, last.key)
          /\ LastMap[last.key] = last.ret
          /\ LastMap[last.key] # last.prior

\* The Rust tracker was handed "ab" twice under one key.
C2_Witness ==
    /\ last.side = "rust"
    /\ Stagnant
    /\ last.cand = <<"a", "b">>
    /\ prevRust[last.key] # <<"a", "b">>

\* C3: a stagnant update whose normalized candidate, trimmed, reads as the
\* integer n returns the decimal string of n + 1 padded to even length.
C3_NumericStagnation ==
    (Stagnant /\ LastInt.ok) => last.ret = PadEven(IntToString(IntSucc(LastInt)))

\* The last call found its normalized candidate stored, whether or not it
\* returned.
StagnantHit == last.side # "none" /\ last.had /\ last.prior = PadEven(last.cand)

\* C13: a stagnant integer n whose successor does not fit 64 bits is widened:
\* the update returns the decimal string of the exact n + 1 (padded), never a
\* wrapped negative value, and it fails only when n + 1 does not fit the
\* widest signed width (128 bits).
C13_Widening ==
    (StagnantHit /\ LastInt.ok /\ ~LastInt.neg /\ ~InRange(IntSucc(LastInt), LongMaxMag)) =>
        /\ (~last.panic /\ last.ret # <<>>) => Head(last.ret) # "-"
        /\ InRange(IntSucc(LastInt), I128MaxMag) =>
              /\ ~last.panic
              /\ last.ret = PadEven(IntToString(IntSucc(LastInt)))
        /\ last.panic => ~InRange(IntSucc(LastInt), I128MaxMag)

\* C18: the two trackers are one operation: whenever both maps are equal, a
\* call of either tracker returns the value and leaves the map that the other
\* tracker computes from the same map, key and candidate, and neither fails;
\* also for stagnant integers outside the 64-bit range.
C18_SameOperation ==
    [][(prevJava = prevRust /\ last'.side \in {"java", "rust"}) =>
          LET j == checkAndIncreaseJava(prevJava, last'.key, last'.cand)
              r == check_and_increase_rust(prevRust, last'.key, last'.cand, overflowChecks)
          IN  /\ ~r.panic
              /\ j.ret = r.ret
              /\ j.map = r.map
              /\ last'.ret = j.ret
              /\ ~last'.panic]_vars

\* C4 as stated: the second update(k2, "ab") returns "ab " and a third one,
\* handed the returned value, returns "ab  ".
C4_AsStated ==
    /\ (Stagnant /\ last.key = "k2" /\ last.cand = <<"a", "b">>)
          => last.ret = <<"a", "b", " ">>
    /\ (Stagnant /\ last.key = "k2" /\ Len(last.cand) > 2
          /\ SubSeq(last.cand, 1, 2) = <<"a", "b">> /\ ~LastInt.ok)
          => last.ret = <<"a", "b", " ", " ">>

\* C4 amended: update(k2, "ab") returns "ab" on a fresh map, "ab" followed by
\* two spaces when repeated, and "ab" followed by four spaces when handed that
\* value again: every stagnant non-integer hit appends one space and one more
\* space of padding.
C4_NonNumericStagnation ==
    /\ (Returned /\ ~last.had /\ last.cand = <<"a", "b">>) => last.ret = <<"a", "b">>
    /\ (Stagnant /\ ~LastInt.ok) => last.ret = PadEven(last.cand) \o <<" ", " ">>
    /\ (Stagnant /\ last.cand = <<"a", "b">>) => last.ret = <<"a", "b", " ", " ">>
    /\ (Stagnant /\ last.cand = <<"a", "b", " ", " ">>)
          => last.ret = <<"a", "b", " ", " ", " ", " ">>

\* The third update of k2, handed the value the second one returned.
C4_Witness ==
    /\ calls = 3
    /\ Stagnant
    /\ last.key = "k2"
    /\ last.cand = <<"a", "b", " ", " ">>
    /\ last.ret = <<"a", "b", " ", " ", " ", " ">>

\* C5: an update that is not stagnant (no prior value, or a prior value other
\* than the normalized candidate) returns the candidate with one space
\* appended iff its length is odd, and the map holds that value afterwards.
C5_NonStagnant ==
    (Returned /\ ~Stagnant) =>
        /\ last.ret = (IF Len(last.cand) % 2 = 1 THEN Append(last.cand, " ") ELSE last.cand)
        /\ HasKey(LastMap, last.key)
        /\ LastMap[last.key] = last.ret

\* An odd-length candidate overwrote a different prior value.
C5_Witness ==
    /\ last.side = "java"
    /\ Returned
    /\ last.had
    /\ last.prior # PadEven(last.cand)
    /\ Len(last.cand) % 2 = 1
    /\ prevJava[last.key] = Append(last.cand, " ")

(***************************************************************************)
(* Properties of the tokenizer behind the pointer bridge (BridgeSpec).     *)
(***************************************************************************)
\* The lines of s as sections 4.2 reads them: a line starts at the first
\* character and after every line feed, and runs up to the next line feed.
IsLineStart(s, i) == i <= Len(s) /\ (i = 1 \/ s[i - 1] = "\n")

LineEnd(s, i) ==
    IF \E j \in i..Len(s) : s[j] = "\n"
    THEN (CHOOSE j \in i..Len(s) : s[j] = "\n" /\ \A h \in i..(j - 1) : s[h] # "\n") - 1
    ELSE Len(s)

\* The line starting at i without its leading whitespace.
Stripped(s, i) ==
    LET e == LineEnd(s, i)
        rest == {j \in i..e : ~IsWs(s[j])}
    IN  IF rest = {} THEN <<>>
        ELSE SubSeq(s, CHOOSE j \in rest : \A h \in rest : j <= h, e)

Begins(t, w) == Len(t) >= Len(w) /\ \A i \in 1..Len(w) : t[i] = w[i]

\* The tag section 4.2 gives the line starting at i: a sequence of zero or one tags.
SpecTag(s, i) ==
    LET t == Stripped(s, i)
    IN  CASE t = <<>> \/ Begins(t, <<"#">>) -> <<>>
          [] Begins(t, <<"d","e","f"," ">>) -> <<TagDEF>>
          [] Begins(t, <<"c","l","a","s","s"," ">>) -> <<TagCLASS>>
          [] Begins(t, <<"i","m","p","o","r","t"," ">>) -> <<TagIMPORT>>
          [] Begins(t, <<"f","r","o","m"," ">>) -> <<TagIMPORT>>
          [] OTHER -> <<TagSTMT>>

RECURSIVE SpecTagsFrom(_, _)
SpecTagsFrom(s, i) ==
    IF i > Len(s) THEN <<>>
    ELSE (IF IsLineStart(s, i) THEN SpecTag(s, i) ELSE <<>>) \o SpecTagsFrom(s, i + 1)

\* The token sequence section 4.2 gives the source s.
SpecTokens(s) == SpecTagsFrom(s, 1)

TagSet == {TagDEF, TagCLASS, TagIMPORT, TagSTMT}

\* The tags carried by the tokenizer's comma-joined result.
TagsOf(str) == SelectNonEmpty(Split(TrimEnd(str), ","))

BridgeDone == bridgeOut # <<>> /\ bridgeOut[1].valid

\* C8: for every non-blank source the tokenizer emits, in line order, exactly
\* one tag per line that is neither blank nor a comment (DEF, CLASS, IMPORT
\* by its prefix, STMT otherwise), so the count of tokens is the count of
\* such lines and every tag is one of the four.
C8_Classification ==
    (BridgeDone /\ Trim(bridgeSrc) # <<>>) =>
        LET got == TagsOf(bridgeOut[1].out)
        IN  /\ got = SpecTokens(bridgeSrc)
            /\ \A i \in 1..Len(got) : got[i] \in TagSet
            /\ Len(got) = Cardinality({i \in 1..Len(bridgeSrc) :
                                IsLineStart(bridgeSrc, i) /\ SpecTag(bridgeSrc, i) # <<>>})

\* An indented class line after a comment became the single token CLASS.
C8_Witness ==
    /\ BridgeDone
    /\ bridgeSrc = <<"#"," ","c","\n"," ","c","l","a","s","s"," ","C",":","\n">>
    /\ bridgeOut[1].out = <<"C","L","A","S","S"," ">>

(***************************************************************************)
(* Properties of main() (Spec).                                            *)
(***************************************************************************)
\* The serialized AST of section 4.3 / 6 for the token sequence tags.
SpecAst(tags) ==
    LET child(i) == NodeOpen \o tags[i] \o NodeMid \o <<"n">> \o NatToString(i - 1)
                    \o NodeClose
    IN  ProgramOpen \o Join([i \in 1..Len(tags) |-> child(i)], <<",">>) \o ProgramClose

Emitted == pc = "done" /\ Len(stdout) = 1

\* C6: for an input with k >= 1 tokens t0..t(k-1) the emitted AST is a Program
\* root whose k children, in token order, have kind ti exactly and name n<i>
\* exactly.
C6_ChildPerToken ==
    (Emitted /\ SpecTokens(fileContent) # <<>>) =>
        TrimEnd(stdout[1]) = SpecAst(SpecTokens(fileContent))

\* C7: for an empty or all-whitespace source the tokenizer yields no token
\* (an empty string or an empty list) and the AST built from its result is a
\* Program root without children.
C7_BlankSource ==
    (Emitted /\ Trim(fileContent) = <<>>) =>
        /\ TrimEnd(tokens) \in {EmptyStr, EmptyList}
        /\ TrimEnd(stdout[1]) = ProgramEmpty

\* The line the file alone determines: tokenize, build, pad, with no map and
\* no arbitration.
FileDerived(c) ==
    PadEven(build_ast_from_tokens(PadEven(tokenize_even_checked(PadEven(c), TRUE)), TRUE))

\* C9: the line written depends only on the file: whatever the fallback and
\* the socket returned, it is the file-derived AST, and nothing else is
\* written.
C9_OutputFromFileOnly ==
    /\ stdout # <<>> => stdout = <<FileDerived(fileContent)>>
    /\ pc = "done" => stdout # <<>>

\* The peer sent a non-empty text, which replaced finalJson, and the run
\* still wrote its line.
C9_Witness ==
    /\ Emitted
    /\ sockOutcome = "closed"
    /\ Trim(socketResp) # <<>>
    /\ Trim(fileContent) # <<>>

\* The path main looks up: args[0] as checkAndIncreaseJava returns it.
LookedUp == ensureEvenJava(args[1])

C12_FreshMapPerRun ==
    /\ pc = "start" => prevJava = EmptyMap
    /\ pc = "fallback" => finalJson = ProgramEmpty
    /\ pc = "read" => prevJava["rawPath"] = PadEven(args[1])

\* C17: padding the file content to even length before it is tokenized does
\* not change the tokens: the tokens of the tracked content, and the tokens
\* the run keeps, are the tokens of the content as it is on disk, also when
\* the content has odd length and ends in a bare keyword.
C17_TrackingKeepsTokens ==
    /\ HasKey(prevJava, "content_loaded") =>
          tokenize_even_checked(content, overflowChecks)
              = tokenize_even_checked(fileContent, overflowChecks)
    /\ HasKey(prevJava, "tokens_after_read") =>
          tokens = PadEven(tokenize_even_checked(fileContent, overflowChecks))

\* The string tokenize_even_checked hands to its tracker for the source src.
TokensCandidate(src) ==
    IF Trim(src) = <<>> THEN EmptyList
    ELSE Join(TokenizeLoop(lines(src), <<>>), <<",">>)

\* The string build_ast_from_tokens hands to its tracker for the tokens t.
AstCandidate(t) ==
    IF Trim(t) = <<>> THEN ProgramEmpty
    ELSE LET toks == SelectNonEmpty(Split(t, ","))
         IN  ProgramOpen
             \o Join([i \in 1..Len(toks) |-> AstNode(toks[i], i - 1)], <<",">>)
             \o ProgramClose

\* The slot key k, when written, holds the candidate c padded to even length.
Fresh(k, c) == HasKey(prevJava, k) => prevJava[k] = PadEven(c)

\* C16: in one run from an empty map no update is stagnant: every slot key
\* holds, and every tracked variable is, its candidate padded to even length
\* (a stagnant update would return something else), the helpers' results
\* included, and the line written is the padded serialized AST.
C16_NoStagnationInRun ==
    /\ Fresh("finalJson_init", ProgramEmpty)
    /\ Fresh("fb_after_rust_call", ProgramEmpty)
    /\ Fresh("finalJson_from_fb", ProgramEmpty)
    /\ Fresh("probe_socket", Probe)
    /\ HasKey(prevJava, "socketResp") =>
          /\ \E t \in SockTexts : prevJava["socketResp"] = PadEven(t)
          /\ socketResp = prevJava["socketResp"]
    /\ Fresh("socketResp_err", EmptyStr)
    /\ Fresh("finalJson_from_socket", socketResp)
    /\ Fresh("astJson_init", AstPlaceholderJson)
    /\ Fresh("finalJson_from_ast_placeholder", AstPlaceholderJson)
    /\ Fresh("tokens_init", EmptyList)
    /\ Fresh("usage_msg", UsageMsg)
    /\ HasKey(prevJava, "rawPath") => Fresh("rawPath", args[1])
    /\ HasKey(prevJava, "file_missing") =>
          Fresh("file_missing", FileNotFound \o PadEven(args[1]))
    /\ Fresh("content_loaded", fileContent)
    /\ Fresh("tokens_after_read", TokensCandidate(content))
    /\ Fresh("ast_after_build", AstCandidate(tokens))
    /\ Fresh("outJson_final", AstCandidate(tokens))
    /\ pc \notin {"start", "fallback"} => fb = PadEven(ProgramEmpty)
    /\ HasKey(prevJava, "content_loaded") => content = PadEven(fileContent)
    /\ HasKey(prevJava, "tokens_after_read") => tokens = PadEven(TokensCandidate(content))
    /\ HasKey(prevJava, "ast_after_build") => ast = PadEven(AstCandidate(tokens))
    /\ stdout # <<>> => stdout = <<PadEven(AstCandidate(tokens))>>
    /\ pc = "done" => stdout # <<>>
    /\ prevRust = EmptyMap

\* A run that got a socket answer and parsed a file with two tokens wrote its
\* line with every slot of that path written once.
C16_Witness ==
    /\ Emitted
    /\ TokensCandidate(content) = TagDEF \o <<",">> \o TagSTMT
    /\ HasKey(prevJava, "finalJson_from_socket")
    /\ HasKey(prevJava, "outJson_final")
    /\ stdout = <<prevJava["outJson_final"]>>

\* main has returned: the line is written, or the run halted on its
\* argument or file.
Terminated == pc \in {"done", "halted", "crashed"}

\* C15: every run terminates unless it waits forever in the socket read (the
\* peer neither closes the stream nor the transport fails): the read is the
\* only step a run can stay in, every other step completes and hands over to
\* the next.
C15_Terminates == (<>[](pc = "sockRead")) \/ <>Terminated

\* The peer closed the stream and the run went on to write its line.
C15_Witness ==
    /\ pc = "done"
    /\ sockOutcome = "closed"
    /\ Len(stdout) = 1

(***************************************************************************)
(* Properties of the library parser (AdaSpec).                             *)
(***************************************************************************)
\* The word that follows the keyword in src: the first run of characters that
\* are not whitespace, after the whitespace that ends the text the first
\* "procedure" stands in; none (an empty sequence) when nothing follows.
WordAfterKeyword(src) ==
    LET at == CHOOSE i \in 1..Len(src) :
                  /\ SubSeq(src, i, i + Len(Procedure) - 1) = Procedure
                  /\ \A j \in 1..(i - 1) : SubSeq(src, j, j + Len(Procedure) - 1) # Procedure
        rest == SubSeq(src, at + Len(Procedure), Len(src))
        gap == {i \in 1..Len(rest) : IsWs(rest[i])}
        from == CHOOSE i \in gap : \A j \in gap : i <= j
        after == IF gap = {} THEN <<>>
                 ELSE split_whitespace(SubSeq(rest, from, Len(rest)))
    IN  IF after = <<>> THEN <<>> ELSE <<after[1]>>

AdaDone == adaOut # <<>>

\* C14: the result is a Program with exactly one child: for a source that
\* contains "procedure", a ProcedureDecl named by the word following the
\* keyword (punctuation around it trimmed) with one Identifier child of the
\* same name; for a blank source, Unknown; otherwise Literal "<text>".
C14_ParseAda ==
    AdaDone =>
        LET t == adaOut[1]
            c == t.children[1]
            w == WordAfterKeyword(adaSrc)
        IN  /\ t.kind = "Program"
            /\ Len(t.children) = 1
            /\ IF Contains(adaSrc, Procedure)
               THEN /\ c.kind = "ProcedureDecl"
                    /\ w # <<>> => c.name = trim_matches_non_alnum(w[1])
                    /\ Len(c.children) = 1
                    /\ c.children[1].kind = "Identifier"
                    /\ c.children[1].name = c.name
                    /\ c.children[1].children = <<>>
               ELSE IF Trim(adaSrc) = <<>>
               THEN c.kind = "Unknown" /\ c.children = <<>>
               ELSE c.kind = "Literal" /\ c.value = TextValue /\ c.children = <<>>

SockFailed == sockOutcome \in {"connectFailed", "writeFailed", "readFailed"}

====
